---- MODULE Spec2Model ----
(***************************************************************************)
(* xbot_monitoring (src/src/xbot_monitoring.cpp): the bridge between the   *)
(* robot's message bus, the MQTT broker (push sink) and the REST cache     *)
(* (pull interface).                                                       *)
(*                                                                         *)
(* Three threads run the code:                                             *)
(*   "main"    the discovery loop of main() and, through mg_mgr_poll, the  *)
(*             rest_handler;                                               *)
(*   "spinner" the single ros::AsyncSpinner(1) thread that runs every bus  *)
(*             callback (sensor info, sensor data, robot state, map, map   *)
(*             overlay, registerActions), one at a time;                   *)
(*   "mqtt"    the broker client's callback thread (connected,             *)
(*             message_arrived).                                           *)
(* Every access to shared memory and every lock operation is one step.     *)
(***************************************************************************)
EXTENDS Naturals, Sequences, FiniteSets, TLC

VARIABLES
    pc,                   \* thread -> position in the code
    mqtt_callback_mutex,  \* holder of std::mutex mqtt_callback_mutex, or NoThread
    rest_mutex,           \* holder of std::mutex rest_mutex, or NoThread
    active_subscribers,   \* keys of std::map<topic, ros::Subscriber> active_subscribers
    found_sensors,        \* std::map<topic, SensorInfo> found_sensors
    sensor_data_subscribers, \* std::vector<ros::Subscriber> sensor_data_subscribers
    registered_actions,   \* std::map<prefix, std::vector<ActionInfo>> registered_actions
    map,                  \* json map
    has_map,              \* bool has_map
    map_overlay,          \* json map_overlay
    has_map_overlay,      \* bool has_map_overlay
    g_CachedData,         \* the REST cache
    broker_subscriptions, \* topics client_ has subscribed to at the broker
    action_pub,           \* the strings published on xbot/action, in order
    cmd_vel_pub,          \* the twists published on the velocity command topic, in order
    message,              \* mqtt: the broker message message_arrived is handling
    request,              \* main: the HTTP request rest_handler is serving
    reply,                \* main: the reply rest_handler has sent for it
    requestFloor,         \* history: doneVersion of the request's resource when it began
    sink,                 \* broker: topic -> last message delivered to it
    item,                 \* main: item.name of the for_each step in progress
    topic,                \* spinner: the topic captured by the running info callback
    dsub,                 \* spinner: index of the data subscription whose callback runs
    loc,                  \* thread -> the local json of the publish_* call in progress
    attempts,             \* thread -> push-sink calls made by the publish path in progress
    failures,             \* thread -> how many of them threw mqtt::exception
    nInfoSubscribe,       \* history: topic -> metadata subscriptions created by main
    nInfoDelivered,       \* history: topic -> info callbacks started
    nInfoDone,            \* history: topic -> info callbacks finished
    nConnects,            \* history: connected() callbacks started
    connect,              \* history: what the running connected() found present when
                          \* it began, and the topics it has pushed to since
    version,              \* history: source -> how many times it was written
    locVersion,           \* history: thread -> version of the source loc was read from
    cacheVersion,         \* history: resource -> version of the value the cache holds
    doneVersion,          \* history: resource -> newest version a returned publish wrote
    nRegisterOk,          \* history: registerActions calls that returned true
    rejected,             \* history: topics whose descriptor subscribe_to_sensor refused
    bus,                  \* what runs on the bus: the topics the master lists and
                          \* the channels that have a publisher or a client
    nEvents,              \* history: callbacks the bus and the broker have started
    nPushFailures         \* history: push-sink calls that threw

locks == <<mqtt_callback_mutex, rest_mutex>>
registry == <<active_subscribers, found_sensors, sensor_data_subscribers>>
sources == <<registered_actions, map, has_map, map_overlay, has_map_overlay>>
outputs == <<g_CachedData, sink, broker_subscriptions, action_pub, cmd_vel_pub>>
rest == <<request, reply, requestFloor>>
calls == <<loc, attempts, failures>>
counters == <<nInfoSubscribe, nInfoDelivered, nInfoDone, nConnects, nRegisterOk,
              rejected, connect>>
versions == <<version, locVersion, cacheVersion, doneVersion>>
history == <<counters, versions>>

vars == <<pc, locks, registry, sources, outputs, rest, message, item, topic, dsub, calls,
          history, bus, nEvents, nPushFailures>>

-----------------------------------------------------------------------------
(* Bounds of the model *)

MaxEvents == 2         \* bus messages, service calls and broker connects in a run
MaxSubscribes == 2     \* metadata subscriptions main may create per topic
MaxPushFailures == 2   \* push-sink calls that throw in a run

-----------------------------------------------------------------------------
(* Names *)

Threads == {"main", "spinner", "mqtt"}
NoThread == "none"

\* Topic names are paths, one string per segment.
TopicA == <<"xbot_monitoring", "sensors", "a", "info">>
TopicB == <<"xbot_monitoring", "sensors", "b", "info">>
TopicRosout == <<"rosout">>
Topics == {TopicA, TopicB, TopicRosout}
\* std::map iterates in key order
TopicOrder == <<TopicA, TopicB>>

\* boost::regex_match(name, "/xbot_monitoring/sensors/.*/info"): the whole
\* name matches; ".*" is any run of characters, slashes included.
topic_regex(name) ==
    /\ Len(name) >= 4
    /\ name[1] = "xbot_monitoring"
    /\ name[2] = "sensors"
    /\ name[Len(name)] = "info"

\* xbot_msgs::SensorInfo as far as the code branches on it: sensor_id and
\* value_type; the other fields are copied to the json unchanged.
SensorIds == {"s1", "s2"}
ValueTypes == {"TYPE_STRING", "TYPE_DOUBLE", "TYPE_OTHER"}
SensorInfo(id, type) == [sensor_id |-> id, value_type |-> type]
\* the descriptors the sensor nodes publish
SensorInfos ==
    {SensorInfo("s1", "TYPE_DOUBLE"), SensorInfo("s2", "TYPE_STRING"),
     SensorInfo("s1", "TYPE_OTHER")}

\* The channels of the bus that feed the publish paths directly.
Channels == {"robot_state", "map", "map_overlay", "register_actions"}

-----------------------------------------------------------------------------
(* nlohmann::json values, std::map, control *)

JsonNull == [json |-> "null"]
JsonArray(items) == [json |-> "array", items |-> items]
JsonObject(members) == [json |-> "object", members |-> members]
JsonNumber(v) == [json |-> "number", value |-> v]
JsonString(v) == [json |-> "string", value |-> v]

MapPut(m, k, v) == [x \in (DOMAIN m) \cup {k} |-> IF x = k THEN v ELSE m[x]]

EmptyMap == [x \in {} |-> TRUE]

\* no item / no captured topic: the thread is not in that code
NoTopic == <<>>

Goto(th, p) == pc' = [pc EXCEPT ![th] = p]

Max(a, b) == IF a >= b THEN a ELSE b

\* the publish call of thread th returns, having written `resource` of the cache
Returned(resource) ==
    doneVersion' = [doneVersion EXCEPT ![resource] = Max(@, cacheVersion[resource])]

\* the locals of a publish path go out of scope
EndCall(th) ==
    /\ loc' = [loc EXCEPT ![th] = JsonNull]
    /\ locVersion' = [locVersion EXCEPT ![th] = 0]
    /\ attempts' = [attempts EXCEPT ![th] = 0]
    /\ failures' = [failures EXCEPT ![th] = 0]

-----------------------------------------------------------------------------
(* Serializer and push sink *)

\* json::dump(): the text form
Dump(j) == [text |-> j]

\* data["d"] = j; json::to_bson(data): the binary form of the wrapped value
ToBson(j) == [bson |-> [d |-> j]]

\* the delivery of client_->publish(topic, data, 1, true) / publish(topic, data)
QosRetained == 1
\* a push sink that retains every message
DeliveryAlwaysRetained(retain) == [qos |-> QosRetained, retained |-> TRUE]

Delivery(retain) ==
    IF retain THEN [qos |-> QosRetained, retained |-> TRUE]
              ELSE [qos |-> "default", retained |-> FALSE]

\* a publish path that lets mqtt::exception escape: the call after it is skipped
TryPublishRethrow(th, t, data, retain, ok, next) ==
    /\ ok \/ nPushFailures < bus.push_failures
    /\ sink' = IF ok THEN MapPut(sink, t, [data |-> data, how |-> Delivery(retain)])
                     ELSE sink
    /\ attempts' = [attempts EXCEPT ![th] = @ + 1]
    /\ connect' = IF th = "mqtt" THEN [connect EXCEPT !.pushed = @ \cup {t}] ELSE connect
    /\ failures' = [failures EXCEPT ![th] = IF ok THEN @ ELSE @ + 1]
    /\ nPushFailures' = IF ok THEN nPushFailures ELSE nPushFailures + 1
    /\ Goto(th, IF ok THEN next ELSE "idle")

\* try_publish / try_publish_binary: publish to the broker; an mqtt::exception
\* (ok = FALSE) is caught and dropped, and the caller goes on to `next`.
TryPublish(th, t, data, retain, ok, next) ==
    /\ ok \/ nPushFailures < bus.push_failures
    /\ sink' = IF ok THEN MapPut(sink, t, [data |-> data, how |-> Delivery(retain)])
                     ELSE sink
    /\ attempts' = [attempts EXCEPT ![th] = @ + 1]
    /\ connect' = IF th = "mqtt" THEN [connect EXCEPT !.pushed = @ \cup {t}] ELSE connect
    /\ failures' = [failures EXCEPT ![th] = IF ok THEN @ ELSE @ + 1]
    /\ nPushFailures' = IF ok THEN nPushFailures ELSE nPushFailures + 1
    /\ Goto(th, next)

-----------------------------------------------------------------------------
(* Data races.  A thread is "at" an access when its next step performs it. *)

\* spinner is about to insert a new key into found_sensors (a structural write)
SpinnerInsertsFound ==
    /\ pc["spinner"] = "info_lock"
    /\ mqtt_callback_mutex = NoThread
    /\ topic \notin DOMAIN found_sensors

\* spinner is about to erase from active_subscribers
SpinnerErasesActive ==
    /\ pc["spinner"] = "info_erase"
    /\ topic \in active_subscribers

\* What an unlocked std::map::count(k) can return: the map's answer, or, when
\* another thread is changing the tree at the same time, either answer.
RacyCount(m, k, writerActive) ==
    IF writerActive THEN {0, 1} ELSE {IF k \in m THEN 1 ELSE 0}

-----------------------------------------------------------------------------
(* main(): the discovery loop *)

\* the metadata subscriptions of topic t the bus still holds: the handle in
\* active_subscribers and the temporary that n->subscribe returned
InfoSubscriptionLive(t) ==
    \/ t \in active_subscribers
    \/ pc["main"] = "main_insert" /\ item = t

\* std::for_each over the listed topics: take one item
ForEachTopic(t) ==
    /\ pc["main"] = "idle"
    /\ t \in bus.topics
    /\ IF topic_regex(t) /\ nInfoSubscribe[t] < MaxSubscribes
          THEN /\ Goto("main", "main_count_active")
               /\ item' = t
          ELSE UNCHANGED <<pc, item>>
    /\ UNCHANGED <<locks, registry, sources, outputs, message, rest, topic, dsub,
                   calls, history, bus, nEvents, nPushFailures>>

\* active_subscribers.count(item.name) == 0, read without a lock
CountActive ==
    /\ pc["main"] = "main_count_active"
    /\ \E n \in RacyCount(active_subscribers, item, SpinnerErasesActive) :
          /\ Goto("main", IF n = 0 THEN "main_count_found" ELSE "idle")
          /\ item' = IF n = 0 THEN item ELSE NoTopic
    /\ UNCHANGED <<locks, registry, sources, outputs, message, rest, topic, dsub,
                   calls, history, bus, nEvents, nPushFailures>>

\* found_sensors.count(item.name) == 0, read without a lock
CountFound ==
    /\ pc["main"] = "main_count_found"
    /\ \E n \in RacyCount(DOMAIN found_sensors, item, SpinnerInsertsFound) :
          /\ Goto("main", IF n = 0 THEN "main_subscribe" ELSE "idle")
          /\ item' = IF n = 0 THEN item ELSE NoTopic
    /\ UNCHANGED <<locks, registry, sources, outputs, message, rest, topic, dsub,
                   calls, history, bus, nEvents, nPushFailures>>

\* n->subscribe<SensorInfo>(item.name, 1, callback): the right operand of the
\* assignment; from here on the bus may run the callback
NodeSubscribeInfo ==
    /\ pc["main"] = "main_subscribe"
    /\ nInfoSubscribe' = [nInfoSubscribe EXCEPT ![item] = @ + 1]
    /\ Goto("main", "main_insert")
    /\ UNCHANGED <<locks, registry, sources, outputs, message, rest, item, topic, dsub,
                   calls, nInfoDelivered, nInfoDone, nConnects, connect, versions,
                   nRegisterOk, rejected, bus, nEvents, nPushFailures>>

\* active_subscribers[item.name] = <the subscriber>, written without a lock
InsertActive ==
    /\ pc["main"] = "main_insert"
    /\ active_subscribers' = active_subscribers \cup {item}
    /\ Goto("main", "idle")
    /\ item' = NoTopic
    /\ UNCHANGED <<locks, found_sensors, sensor_data_subscribers, sources, outputs,
                   message, rest, topic, dsub, calls, history, bus, nEvents,
                   nPushFailures>>

-----------------------------------------------------------------------------
(* publish_sensor_metadata(), called by the info callback (spinner) and by   *)
(* connected() (mqtt)                                                        *)

\* where the caller goes on after the call
AfterSensorMetadata(th) == IF th = "mqtt" THEN "map_check" ELSE "info_return"

RECURSIVE SensorInfoFrom(_)
\* the loop over found_sensors, in key order, from position i of TopicOrder
SensorInfoFrom(i) ==
    IF i > Len(TopicOrder) THEN <<>>
    ELSE IF TopicOrder[i] \in DOMAIN found_sensors
         THEN <<[sensor_id |-> found_sensors[TopicOrder[i]].sensor_id,
                 value_type |->
                    CASE found_sensors[TopicOrder[i]].value_type = "TYPE_STRING" -> "STRING"
                      [] found_sensors[TopicOrder[i]].value_type = "TYPE_DOUBLE" -> "DOUBLE"
                      [] OTHER -> "UNKNOWN"]>> \o SensorInfoFrom(i + 1)
         ELSE SensorInfoFrom(i + 1)

\* a publish_sensor_metadata that copies found_sensors under the lock and
\* releases it before the list is pushed
SensorMetadataBuildUnlocked(th) ==
    /\ pc[th] = "meta_lock"
    /\ mqtt_callback_mutex = NoThread
    /\ IF DOMAIN found_sensors = {}
          THEN /\ Goto(th, AfterSensorMetadata(th))
               /\ UNCHANGED <<loc, locVersion>>
          ELSE /\ loc' = [loc EXCEPT ![th] = JsonArray(SensorInfoFrom(1))]
               /\ locVersion' = [locVersion EXCEPT ![th] = version.found_sensors]
               /\ Goto(th, "meta_push_json")
    /\ UNCHANGED <<locks, registry, sources, outputs, message, rest, item, topic, dsub,
                   attempts, failures, counters, version, cacheVersion, doneVersion,
                   bus, nEvents, nPushFailures>>

\* std::unique_lock<std::mutex> lk(mqtt_callback_mutex);
\* if (found_sensors.empty()) return;  else build the json array
SensorMetadataBuild(th) ==
    /\ pc[th] = "meta_lock"
    /\ mqtt_callback_mutex = NoThread
    /\ IF DOMAIN found_sensors = {}
          THEN /\ Goto(th, AfterSensorMetadata(th))
               /\ UNCHANGED <<mqtt_callback_mutex, loc, locVersion>>
          ELSE /\ mqtt_callback_mutex' = th
               /\ loc' = [loc EXCEPT ![th] = JsonArray(SensorInfoFrom(1))]
               /\ locVersion' = [locVersion EXCEPT ![th] = version.found_sensors]
               /\ Goto(th, "meta_push_json")
    /\ UNCHANGED <<rest_mutex, registry, sources, outputs, message, rest, item, topic,
                   dsub, attempts, failures, counters, version, cacheVersion,
                   doneVersion, bus, nEvents, nPushFailures>>

\* try_publish("sensor_infos/json", sensor_info.dump(), true)
SensorMetadataPushJson(th) ==
    /\ pc[th] = "meta_push_json"
    /\ \E ok \in BOOLEAN :
          TryPublish(th, <<"sensor_infos", "json">>, Dump(loc[th]), TRUE, ok,
                     "meta_push_bson")
    /\ UNCHANGED <<locks, registry, sources, g_CachedData, broker_subscriptions,
                   action_pub, cmd_vel_pub, message, rest, item, topic, dsub, loc,
                   nInfoSubscribe, nInfoDelivered, nInfoDone, nConnects, versions,
                   nRegisterOk, rejected, bus, nEvents>>

\* try_publish_binary("sensor_infos/bson", ..., true)
SensorMetadataPushBson(th) ==
    /\ pc[th] = "meta_push_bson"
    /\ \E ok \in BOOLEAN :
          TryPublish(th, <<"sensor_infos", "bson">>, ToBson(loc[th]), TRUE, ok,
                     "meta_lock_rest")
    /\ UNCHANGED <<locks, registry, sources, g_CachedData, broker_subscriptions,
                   action_pub, cmd_vel_pub, message, rest, item, topic, dsub, loc,
                   nInfoSubscribe, nInfoDelivered, nInfoDone, nConnects, versions,
                   nRegisterOk, rejected, bus, nEvents>>

\* g_CachedData.sensor_info = sensor_info
SensorMetadataWrite(th) ==
    /\ pc[th] = "meta_lock_rest"
    /\ rest_mutex = NoThread
    /\ rest_mutex' = th
    /\ g_CachedData' = [g_CachedData EXCEPT !.sensor_info = loc[th]]
    /\ cacheVersion' = [cacheVersion EXCEPT !.sensor_info = locVersion[th]]
    /\ Goto(th, "meta_return")
    /\ UNCHANGED <<mqtt_callback_mutex, registry, sources, broker_subscriptions,
                   action_pub, cmd_vel_pub, message, rest, sink, item, topic, dsub,
                   calls, counters, version, locVersion, doneVersion, bus, nEvents,
                   nPushFailures>>

\* a publish_sensor_metadata whose locks outlive the call
SensorMetadataReturnKeepsLocks(th) ==
    /\ pc[th] = "meta_return"
    /\ Returned("sensor_info")
    /\ EndCall(th)
    /\ Goto(th, AfterSensorMetadata(th))
    /\ UNCHANGED <<locks, registry, sources, outputs, message, rest, item, topic, dsub,
                   counters, version, cacheVersion, bus, nEvents, nPushFailures>>

\* the end of the function: mtx and lk are released
SensorMetadataReturn(th) ==
    /\ pc[th] = "meta_return"
    /\ Returned("sensor_info")
    /\ rest_mutex' = NoThread
    /\ mqtt_callback_mutex' = NoThread
    /\ EndCall(th)
    /\ Goto(th, AfterSensorMetadata(th))
    /\ UNCHANGED <<registry, sources, outputs, message, rest, item, topic, dsub,
                   counters, version, cacheVersion, bus, nEvents, nPushFailures>>

-----------------------------------------------------------------------------
(* The sensor info callback (the lambda of main()), and subscribe_to_sensor  *)

\* the bus runs the callback of a live metadata subscription
InfoCallback(t) ==
    /\ pc["spinner"] = "idle"
    /\ t \in Topics
    /\ InfoSubscriptionLive(t)
    /\ nEvents < MaxEvents
    /\ nEvents' = nEvents + 1
    /\ nInfoDelivered' = [nInfoDelivered EXCEPT ![t] = @ + 1]
    /\ topic' = t
    /\ Goto("spinner", "info_lock")
    /\ UNCHANGED <<locks, registry, sources, outputs, message, rest, item, dsub, calls,
                   nInfoSubscribe, nInfoDone, nConnects, connect, versions,
                   nRegisterOk, rejected, bus, nPushFailures>>

\* a callback that keeps only the record of the descriptor it has received
InfoStoreOnlyLatest(msg) ==
    /\ pc["spinner"] = "info_lock"
    /\ mqtt_callback_mutex = NoThread
    /\ msg \in SensorInfos
    /\ found_sensors' = MapPut(EmptyMap, topic, msg)
    /\ version' = [version EXCEPT !.found_sensors = @ + 1]
    /\ Goto("spinner", "info_erase")
    /\ UNCHANGED <<locks, active_subscribers, sensor_data_subscribers, sources,
                   outputs, message, rest, item, topic, dsub, calls, counters,
                   locVersion, cacheVersion, doneVersion, bus, nEvents, nPushFailures>>

\* found_sensors[topic] = *msg; the block ends and lk is released
InfoStore(msg) ==
    /\ pc["spinner"] = "info_lock"
    /\ mqtt_callback_mutex = NoThread
    /\ msg \in SensorInfos
    /\ found_sensors' = MapPut(found_sensors, topic, msg)
    /\ version' = [version EXCEPT !.found_sensors = @ + 1]
    /\ Goto("spinner", "info_erase")
    /\ UNCHANGED <<locks, active_subscribers, sensor_data_subscribers, sources,
                   outputs, message, rest, item, topic, dsub, calls, counters,
                   locVersion, cacheVersion, doneVersion, bus, nEvents, nPushFailures>>

\* active_subscribers.erase(topic), without a lock
InfoErase ==
    /\ pc["spinner"] = "info_erase"
    /\ active_subscribers' = active_subscribers \ {topic}
    /\ Goto("spinner", "info_subscribe")
    /\ UNCHANGED <<locks, found_sensors, sensor_data_subscribers, sources, outputs,
                   message, rest, item, topic, dsub, calls, history, bus, nEvents,
                   nPushFailures>>

\* a subscribe_to_sensor whose switch has the numeric case only
subscribe_to_sensor_numeric(t) ==
    LET sensor == found_sensors[t] IN
    IF sensor.value_type = "TYPE_DOUBLE"
       THEN Append(sensor_data_subscribers,
                   [info |-> t, data_topic |-> sensor.sensor_id,
                    type |-> sensor.value_type])
       ELSE sensor_data_subscribers

\* subscribe_to_sensor(topic): a data subscription on the channel named by the
\* reported sensor_id, its callback holding a reference to found_sensors[topic]
subscribe_to_sensor(t) ==
    LET sensor == found_sensors[t] IN
    IF sensor.value_type \in {"TYPE_DOUBLE", "TYPE_STRING"}
       THEN Append(sensor_data_subscribers,
                   [info |-> t, data_topic |-> sensor.sensor_id,
                    type |-> sensor.value_type])
       ELSE sensor_data_subscribers

\* a callback that opens the data subscription and returns without asking for
\* the sensor list to be published again
InfoSubscribeNoRepublish ==
    /\ pc["spinner"] = "info_subscribe"
    /\ sensor_data_subscribers' = subscribe_to_sensor(topic)
    /\ rejected' = IF found_sensors[topic].value_type \in {"TYPE_DOUBLE", "TYPE_STRING"}
                      THEN rejected ELSE rejected \cup {topic}
    /\ Goto("spinner", "info_return")
    /\ UNCHANGED <<locks, active_subscribers, found_sensors, sources, outputs, message,
                   rest, item, topic, dsub, calls, nInfoSubscribe, nInfoDelivered,
                   nInfoDone, nConnects, connect, versions, nRegisterOk, bus, nEvents,
                   nPushFailures>>

\* subscribe_to_sensor(topic); then on to publish_sensor_metadata()
InfoSubscribe ==
    /\ pc["spinner"] = "info_subscribe"
    /\ sensor_data_subscribers' = subscribe_to_sensor(topic)
    \* default: ROS_ERROR_STREAM("Invalid Sensor Data type: ...")
    /\ rejected' = IF found_sensors[topic].value_type \in {"TYPE_DOUBLE", "TYPE_STRING"}
                      THEN rejected ELSE rejected \cup {topic}
    /\ Goto("spinner", "meta_lock")
    /\ UNCHANGED <<locks, active_subscribers, found_sensors, sources, outputs, message,
                   rest, item, topic, dsub, calls, nInfoSubscribe, nInfoDelivered,
                   nInfoDone, nConnects, connect, versions, nRegisterOk, bus, nEvents,
                   nPushFailures>>

\* the callback returns
InfoReturn ==
    /\ pc["spinner"] = "info_return"
    /\ nInfoDone' = [nInfoDone EXCEPT ![topic] = @ + 1]
    /\ topic' = NoTopic
    /\ Goto("spinner", "idle")
    /\ UNCHANGED <<locks, registry, sources, outputs, message, rest, item, dsub, calls,
                   nInfoSubscribe, nInfoDelivered, nConnects, connect, versions,
                   nRegisterOk, rejected, bus, nEvents, nPushFailures>>

-----------------------------------------------------------------------------
(* publish_map(), called by map_callback (spinner) and connected() (mqtt)    *)

AfterMap(th) == IF th = "mqtt" THEN "overlay_check" ELSE "idle"

\* if (!has_map) return;
\* a publish_map without the has_map check
MapCheckAlways(th) ==
    /\ pc[th] = "map_check"
    /\ Goto(th, "map_push_json")
    /\ UNCHANGED <<locks, registry, sources, outputs, message, rest, item, topic, dsub,
                   calls, history, bus, nEvents, nPushFailures>>

MapCheck(th) ==
    /\ pc[th] = "map_check"
    /\ Goto(th, IF has_map THEN "map_push_json" ELSE AfterMap(th))
    /\ UNCHANGED <<locks, registry, sources, outputs, message, rest, item, topic, dsub,
                   calls, history, bus, nEvents, nPushFailures>>

\* try_publish("map/json", map.dump(), true): reads the global map
MapPushJson(th) ==
    /\ pc[th] = "map_push_json"
    /\ \E ok \in BOOLEAN :
          TryPublish(th, <<"map", "json">>, Dump(map), TRUE, ok, "map_push_bson")
    /\ UNCHANGED <<locks, registry, sources, g_CachedData, broker_subscriptions,
                   action_pub, cmd_vel_pub, message, rest, item, topic, dsub, loc,
                   nInfoSubscribe, nInfoDelivered, nInfoDone, nConnects, versions,
                   nRegisterOk, rejected, bus, nEvents>>

\* data["d"] = map; try_publish_binary("map/bson", ..., true)
MapPushBson(th) ==
    /\ pc[th] = "map_push_bson"
    /\ \E ok \in BOOLEAN :
          TryPublish(th, <<"map", "bson">>, ToBson(map), TRUE, ok, "map_lock_rest")
    /\ UNCHANGED <<locks, registry, sources, g_CachedData, broker_subscriptions,
                   action_pub, cmd_vel_pub, message, rest, item, topic, dsub, loc,
                   nInfoSubscribe, nInfoDelivered, nInfoDone, nConnects, versions,
                   nRegisterOk, rejected, bus, nEvents>>

\* g_CachedData.map = map: reads the global map again
MapWrite(th) ==
    /\ pc[th] = "map_lock_rest"
    /\ rest_mutex = NoThread
    /\ rest_mutex' = th
    /\ g_CachedData' = [g_CachedData EXCEPT !.map = map]
    /\ cacheVersion' = [cacheVersion EXCEPT !.map = version.map]
    /\ Goto(th, "map_return")
    /\ UNCHANGED <<mqtt_callback_mutex, registry, sources, broker_subscriptions,
                   action_pub, cmd_vel_pub, message, rest, sink, item, topic, dsub,
                   calls, counters, version, locVersion, doneVersion, bus, nEvents,
                   nPushFailures>>

MapReturn(th) ==
    /\ pc[th] = "map_return"
    /\ Returned("map")
    /\ rest_mutex' = NoThread
    /\ EndCall(th)
    /\ Goto(th, AfterMap(th))
    /\ UNCHANGED <<mqtt_callback_mutex, registry, sources, outputs, message, rest,
                   item, topic, dsub, counters, version, cacheVersion, bus, nEvents,
                   nPushFailures>>

-----------------------------------------------------------------------------
(* publish_map_overlay(), called by map_overlay_callback and connected()     *)

AfterOverlay(th) == IF th = "mqtt" THEN "actions_build" ELSE "idle"

\* if (!has_map_overlay) return;
OverlayCheck(th) ==
    /\ pc[th] = "overlay_check"
    /\ Goto(th, IF has_map_overlay THEN "overlay_push_json" ELSE AfterOverlay(th))
    /\ UNCHANGED <<locks, registry, sources, outputs, message, rest, item, topic, dsub,
                   calls, history, bus, nEvents, nPushFailures>>

OverlayPushJson(th) ==
    /\ pc[th] = "overlay_push_json"
    /\ \E ok \in BOOLEAN :
          TryPublish(th, <<"map_overlay", "json">>, Dump(map_overlay), TRUE, ok,
                     "overlay_push_bson")
    /\ UNCHANGED <<locks, registry, sources, g_CachedData, broker_subscriptions,
                   action_pub, cmd_vel_pub, message, rest, item, topic, dsub, loc,
                   nInfoSubscribe, nInfoDelivered, nInfoDone, nConnects, versions,
                   nRegisterOk, rejected, bus, nEvents>>

OverlayPushBson(th) ==
    /\ pc[th] = "overlay_push_bson"
    /\ \E ok \in BOOLEAN :
          TryPublish(th, <<"map_overlay", "bson">>, ToBson(map_overlay), TRUE, ok,
                     "overlay_lock_rest")
    /\ UNCHANGED <<locks, registry, sources, g_CachedData, broker_subscriptions,
                   action_pub, cmd_vel_pub, message, rest, item, topic, dsub, loc,
                   nInfoSubscribe, nInfoDelivered, nInfoDone, nConnects, versions,
                   nRegisterOk, rejected, bus, nEvents>>

OverlayWrite(th) ==
    /\ pc[th] = "overlay_lock_rest"
    /\ rest_mutex = NoThread
    /\ rest_mutex' = th
    /\ g_CachedData' = [g_CachedData EXCEPT !.map_overlay = map_overlay]
    /\ cacheVersion' = [cacheVersion EXCEPT !.map_overlay = version.map_overlay]
    /\ Goto(th, "overlay_return")
    /\ UNCHANGED <<mqtt_callback_mutex, registry, sources, broker_subscriptions,
                   action_pub, cmd_vel_pub, message, rest, sink, item, topic, dsub,
                   calls, counters, version, locVersion, doneVersion, bus, nEvents,
                   nPushFailures>>

OverlayReturn(th) ==
    /\ pc[th] = "overlay_return"
    /\ Returned("map_overlay")
    /\ rest_mutex' = NoThread
    /\ EndCall(th)
    /\ Goto(th, AfterOverlay(th))
    /\ UNCHANGED <<mqtt_callback_mutex, registry, sources, outputs, message, rest,
                   item, topic, dsub, counters, version, cacheVersion, bus, nEvents,
                   nPushFailures>>

-----------------------------------------------------------------------------
(* publish_actions(), called by registerActions (spinner) and connected()    *)

AfterActions(th) == IF th = "mqtt" THEN "connected_subscribe" ELSE "register_return"

\* the prefixes in std::map key order
PrefixOrder == <<"A", "B">>
Prefixes == {PrefixOrder[i] : i \in 1..Len(PrefixOrder)}

\* the inner loop: one json per action of the prefix, keyed prefix + "/" + action_id
ActionInfosOf(prefix, actions) ==
    [i \in 1..Len(actions) |->
        [action_id |-> <<prefix, "/", actions[i].action_id>>,
         action_name |-> actions[i].action_name,
         enabled |-> actions[i].enabled]]

RECURSIVE ActionsFrom(_, _)
\* the outer loop over a registry, from position i of PrefixOrder
ActionsFrom(reg, i) ==
    IF i > Len(PrefixOrder) THEN <<>>
    ELSE IF PrefixOrder[i] \in DOMAIN reg
         THEN ActionInfosOf(PrefixOrder[i], reg[PrefixOrder[i]]) \o ActionsFrom(reg, i + 1)
         ELSE ActionsFrom(reg, i + 1)

\* json actions = json::array(); for (...) for (...) actions.push_back(action_info)
ActionsBuild(th) ==
    /\ pc[th] = "actions_build"
    /\ loc' = [loc EXCEPT ![th] = JsonArray(ActionsFrom(registered_actions, 1))]
    /\ locVersion' = [locVersion EXCEPT ![th] = version.registered_actions]
    /\ Goto(th, "actions_push_json")
    /\ UNCHANGED <<locks, registry, sources, outputs, message, rest, item, topic, dsub,
                   attempts, failures, counters, version, cacheVersion, doneVersion,
                   bus, nEvents, nPushFailures>>

ActionsPushJson(th) ==
    /\ pc[th] = "actions_push_json"
    /\ \E ok \in BOOLEAN :
          TryPublish(th, <<"actions", "json">>, Dump(loc[th]), TRUE, ok,
                     "actions_push_bson")
    /\ UNCHANGED <<locks, registry, sources, g_CachedData, broker_subscriptions,
                   action_pub, cmd_vel_pub, message, rest, item, topic, dsub, loc,
                   nInfoSubscribe, nInfoDelivered, nInfoDone, nConnects, versions,
                   nRegisterOk, rejected, bus, nEvents>>

ActionsPushBson(th) ==
    /\ pc[th] = "actions_push_bson"
    /\ \E ok \in BOOLEAN :
          TryPublish(th, <<"actions", "bson">>, ToBson(loc[th]), TRUE, ok,
                     "actions_lock_rest")
    /\ UNCHANGED <<locks, registry, sources, g_CachedData, broker_subscriptions,
                   action_pub, cmd_vel_pub, message, rest, item, topic, dsub, loc,
                   nInfoSubscribe, nInfoDelivered, nInfoDone, nConnects, versions,
                   nRegisterOk, rejected, bus, nEvents>>

\* g_CachedData.actions = actions
ActionsWrite(th) ==
    /\ pc[th] = "actions_lock_rest"
    /\ rest_mutex = NoThread
    /\ rest_mutex' = th
    /\ g_CachedData' = [g_CachedData EXCEPT !.actions = loc[th]]
    /\ cacheVersion' = [cacheVersion EXCEPT !.actions = locVersion[th]]
    /\ Goto(th, "actions_return")
    /\ UNCHANGED <<mqtt_callback_mutex, registry, sources, broker_subscriptions,
                   action_pub, cmd_vel_pub, message, rest, sink, item, topic, dsub,
                   calls, counters, version, locVersion, doneVersion, bus, nEvents,
                   nPushFailures>>

ActionsReturn(th) ==
    /\ pc[th] = "actions_return"
    /\ Returned("actions")
    /\ rest_mutex' = NoThread
    /\ EndCall(th)
    /\ Goto(th, AfterActions(th))
    /\ UNCHANGED <<mqtt_callback_mutex, registry, sources, outputs, message, rest,
                   item, topic, dsub, counters, version, cacheVersion, bus, nEvents,
                   nPushFailures>>

-----------------------------------------------------------------------------
(* Bus callbacks that feed the publish paths (all on the spinner thread)     *)

\* The k-th message of a channel carries content k.  xbot_msgs::Map, abridged
\* to the docking pose and the map size.
MapMsg(k) == [dockX |-> k, mapWidth |-> k]

MapJson(msg) ==
    JsonObject([docking_pose |-> [x |-> msg.dockX], meta |-> [mapWidth |-> msg.mapWidth]])

\* map_callback: build j; map = j
MapCallback ==
    /\ pc["spinner"] = "idle"
    /\ "map" \in bus.channels
    /\ nEvents < MaxEvents
    /\ nEvents' = nEvents + 1
    /\ map' = MapJson(MapMsg(version.map + 1))
    /\ version' = [version EXCEPT !.map = @ + 1]
    /\ Goto("spinner", "mapcb_has_map")
    /\ UNCHANGED <<locks, registry, registered_actions, has_map, map_overlay,
                   has_map_overlay, outputs, message, rest, item, topic, dsub, calls,
                   counters, locVersion, cacheVersion, doneVersion, bus, nPushFailures>>

\* has_map = true; publish_map()
MapCallbackHasMap ==
    /\ pc["spinner"] = "mapcb_has_map"
    /\ has_map' = TRUE
    /\ Goto("spinner", "map_check")
    /\ UNCHANGED <<locks, registry, registered_actions, map, map_overlay,
                   has_map_overlay, outputs, message, rest, item, topic, dsub, calls,
                   history, bus, nEvents, nPushFailures>>

\* xbot_msgs::MapOverlay: polygons, each with a number of points
MinPolygonPoints == 2
OverlayMsg(k) == <<[points |-> 1, color |-> k], [points |-> 3, color |-> k]>>

RECURSIVE OverlayPolys(_, _)
\* the loop over msg->polygons: polygons with fewer than 2 points are skipped
OverlayPolys(msg, i) ==
    IF i > Len(msg) THEN <<>>
    ELSE IF msg[i].points < MinPolygonPoints
         THEN OverlayPolys(msg, i + 1)
         ELSE <<[poly |-> msg[i].points, color |-> msg[i].color]>>
              \o OverlayPolys(msg, i + 1)

OverlayJson(msg) == JsonObject([polygons |-> OverlayPolys(msg, 1)])

\* map_overlay_callback: build j; map_overlay = j
OverlayCallback ==
    /\ pc["spinner"] = "idle"
    /\ "map_overlay" \in bus.channels
    /\ nEvents < MaxEvents
    /\ nEvents' = nEvents + 1
    /\ map_overlay' = OverlayJson(OverlayMsg(version.map_overlay + 1))
    /\ version' = [version EXCEPT !.map_overlay = @ + 1]
    /\ Goto("spinner", "overlaycb_has_overlay")
    /\ UNCHANGED <<locks, registry, registered_actions, map, has_map, has_map_overlay,
                   outputs, message, rest, item, topic, dsub, calls, counters,
                   locVersion, cacheVersion, doneVersion, bus, nPushFailures>>

\* has_map_overlay = true; publish_map_overlay()
OverlayCallbackHasOverlay ==
    /\ pc["spinner"] = "overlaycb_has_overlay"
    /\ has_map_overlay' = TRUE
    /\ Goto("spinner", "overlay_check")
    /\ UNCHANGED <<locks, registry, registered_actions, map, has_map, map_overlay,
                   outputs, message, rest, item, topic, dsub, calls, history, bus,
                   nEvents, nPushFailures>>

\* xbot_msgs::ActionInfo and the action lists a node may register
ActionInfo(id, name) == [action_id |-> id, action_name |-> name, enabled |-> TRUE]
ActionLists ==
    {<<ActionInfo("a1", "Start"), ActionInfo("a2", "Stop")>>, <<ActionInfo("a3", "Dock")>>}

\* a registerActions that appends to the list the prefix already has
RegisterActionsAppend(prefix, actions) ==
    /\ pc["spinner"] = "idle"
    /\ "register_actions" \in bus.channels
    /\ nEvents < MaxEvents
    /\ nEvents' = nEvents + 1
    /\ prefix \in Prefixes
    /\ actions \in ActionLists
    /\ registered_actions' =
          MapPut(registered_actions, prefix,
                 IF prefix \in DOMAIN registered_actions
                    THEN registered_actions[prefix] \o actions ELSE actions)
    /\ version' = [version EXCEPT !.registered_actions = @ + 1]
    /\ Goto("spinner", "actions_build")
    /\ UNCHANGED <<locks, registry, map, has_map, map_overlay, has_map_overlay,
                   outputs, message, rest, item, topic, dsub, calls, counters,
                   locVersion, cacheVersion, doneVersion, bus, nPushFailures>>

\* registerActions: registered_actions[req.node_prefix] = req.actions
RegisterActions(prefix, actions) ==
    /\ pc["spinner"] = "idle"
    /\ "register_actions" \in bus.channels
    /\ nEvents < MaxEvents
    /\ nEvents' = nEvents + 1
    /\ prefix \in Prefixes
    /\ actions \in ActionLists
    /\ registered_actions' = MapPut(registered_actions, prefix, actions)
    /\ version' = [version EXCEPT !.registered_actions = @ + 1]
    /\ Goto("spinner", "actions_build")
    /\ UNCHANGED <<locks, registry, map, has_map, map_overlay, has_map_overlay,
                   outputs, message, rest, item, topic, dsub, calls, counters,
                   locVersion, cacheVersion, doneVersion, bus, nPushFailures>>

\* return true
RegisterActionsReturn ==
    /\ pc["spinner"] = "register_return"
    /\ nRegisterOk' = nRegisterOk + 1
    /\ Goto("spinner", "idle")
    /\ UNCHANGED <<locks, registry, sources, outputs, message, rest, item, topic, dsub,
                   calls, nInfoSubscribe, nInfoDelivered, nInfoDone, nConnects,
                   connect, versions, rejected, bus, nEvents, nPushFailures>>

\* xbot_msgs::RobotState, abridged to the battery level
RobotStateMsg(k) == [battery_percentage |-> k]

\* robot_state_callback: build j
RobotStateCallback ==
    /\ pc["spinner"] = "idle"
    /\ "robot_state" \in bus.channels
    /\ nEvents < MaxEvents
    /\ nEvents' = nEvents + 1
    /\ version' = [version EXCEPT !.robot_state = @ + 1]
    /\ loc' = [loc EXCEPT !["spinner"] =
                  JsonObject([battery_percentage |->
                                 RobotStateMsg(version.robot_state + 1).battery_percentage])]
    /\ locVersion' = [locVersion EXCEPT !["spinner"] = version.robot_state + 1]
    /\ Goto("spinner", "state_push_json")
    /\ UNCHANGED <<locks, registry, sources, outputs, message, rest, item, topic, dsub,
                   attempts, failures, counters, cacheVersion, doneVersion, bus,
                   nPushFailures>>

\* try_publish("robot_state/json", j.dump())
RobotStatePushJson ==
    /\ pc["spinner"] = "state_push_json"
    /\ \E ok \in BOOLEAN :
          TryPublish("spinner", <<"robot_state", "json">>, Dump(loc["spinner"]), FALSE,
                     ok, "state_push_bson")
    /\ UNCHANGED <<locks, registry, sources, g_CachedData, broker_subscriptions,
                   action_pub, cmd_vel_pub, message, rest, item, topic, dsub, loc,
                   nInfoSubscribe, nInfoDelivered, nInfoDone, nConnects, versions,
                   nRegisterOk, rejected, bus, nEvents>>

\* try_publish_binary("robot_state/bson", ...)
RobotStatePushBson ==
    /\ pc["spinner"] = "state_push_bson"
    /\ \E ok \in BOOLEAN :
          TryPublish("spinner", <<"robot_state", "bson">>, ToBson(loc["spinner"]), FALSE,
                     ok, "state_lock_rest")
    /\ UNCHANGED <<locks, registry, sources, g_CachedData, broker_subscriptions,
                   action_pub, cmd_vel_pub, message, rest, item, topic, dsub, loc,
                   nInfoSubscribe, nInfoDelivered, nInfoDone, nConnects, versions,
                   nRegisterOk, rejected, bus, nEvents>>

\* g_CachedData.robot_state = j
RobotStateWrite ==
    /\ pc["spinner"] = "state_lock_rest"
    /\ rest_mutex = NoThread
    /\ rest_mutex' = "spinner"
    /\ g_CachedData' = [g_CachedData EXCEPT !.robot_state = loc["spinner"]]
    /\ cacheVersion' = [cacheVersion EXCEPT !.robot_state = locVersion["spinner"]]
    /\ Goto("spinner", "state_return")
    /\ UNCHANGED <<mqtt_callback_mutex, registry, sources, broker_subscriptions,
                   action_pub, cmd_vel_pub, message, rest, sink, item, topic, dsub,
                   calls, counters, version, locVersion, doneVersion, bus, nEvents,
                   nPushFailures>>

RobotStateReturn ==
    /\ pc["spinner"] = "state_return"
    /\ Returned("robot_state")
    /\ rest_mutex' = NoThread
    /\ EndCall("spinner")
    /\ Goto("spinner", "idle")
    /\ UNCHANGED <<mqtt_callback_mutex, registry, sources, outputs, message, rest,
                   item, topic, dsub, counters, version, cacheVersion, bus, nEvents,
                   nPushFailures>>

-----------------------------------------------------------------------------
(* The data callbacks created by subscribe_to_sensor                        *)

\* sensor values: doubles in tenths (235 is 23.5), and strings, one string per
\* character
DoubleValues == {235}
StringValues == {<<"o", "n">>, <<"9", "0", "%", "%">>}

Digit(n) == <<"0", "1", "2", "3", "4", "5", "6", "7", "8", "9">>[n + 1]

\* std::to_string(double): "%f", six digits after the point
to_string(d) ==
    <<Digit(d \div 100), Digit((d \div 10) % 10), ".", Digit(d % 10),
      "0", "0", "0", "0", "0">>

\* the text the callback of subscription sub publishes and caches for value v
DataText(sub, v) == IF sub.type = "TYPE_DOUBLE" THEN to_string(v) ELSE v

\* info.sensor_id: read through the reference to found_sensors[topic]
InfoSensorId(sub) == found_sensors[sub.info].sensor_id

\* the values a message for subscription sub can hold
DataValues(sub) == IF sub.type = "TYPE_DOUBLE" THEN DoubleValues ELSE StringValues

\* the bus runs the callback of data subscription k with a message
DataCallback(k) ==
    /\ pc["spinner"] = "idle"
    /\ nEvents < MaxEvents
    /\ nEvents' = nEvents + 1
    /\ k \in 1..Len(sensor_data_subscribers)
    /\ dsub' = k
    /\ \E v \in DataValues(sensor_data_subscribers[k]) :
          loc' = [loc EXCEPT !["spinner"] =
                    IF sensor_data_subscribers[k].type = "TYPE_DOUBLE"
                       THEN JsonNumber(v) ELSE JsonString(v)]
    /\ version' = [version EXCEPT !.sensor_data = @ + 1]
    /\ locVersion' = [locVersion EXCEPT !["spinner"] = version.sensor_data + 1]
    /\ Goto("spinner", "data_push")
    /\ UNCHANGED <<locks, registry, sources, outputs, message, rest, item, topic,
                   attempts, failures, counters, cacheVersion, doneVersion, bus,
                   nPushFailures>>

\* try_publish("sensors/" + info.sensor_id + "/data", <text>)
DataPush ==
    /\ pc["spinner"] = "data_push"
    /\ \E ok \in BOOLEAN :
          TryPublish("spinner",
                     <<"sensors", InfoSensorId(sensor_data_subscribers[dsub]), "data">>,
                     DataText(sensor_data_subscribers[dsub], loc["spinner"].value), FALSE,
                     ok, "data_push_bson")
    /\ UNCHANGED <<locks, registry, sources, g_CachedData, broker_subscriptions,
                   action_pub, cmd_vel_pub, message, rest, item, topic, dsub, loc,
                   nInfoSubscribe, nInfoDelivered, nInfoDone, nConnects, versions,
                   nRegisterOk, rejected, bus, nEvents>>

\* try_publish_binary("sensors/" + info.sensor_id + "/bson", ...)
DataPushBson ==
    /\ pc["spinner"] = "data_push_bson"
    /\ \E ok \in BOOLEAN :
          TryPublish("spinner",
                     <<"sensors", InfoSensorId(sensor_data_subscribers[dsub]), "bson">>,
                     ToBson(loc["spinner"]), FALSE, ok, "data_lock_rest")
    /\ UNCHANGED <<locks, registry, sources, g_CachedData, broker_subscriptions,
                   action_pub, cmd_vel_pub, message, rest, item, topic, dsub, loc,
                   nInfoSubscribe, nInfoDelivered, nInfoDone, nConnects, versions,
                   nRegisterOk, rejected, bus, nEvents>>

\* g_CachedData.sensor_data[info.sensor_id] = <text>
DataWrite ==
    /\ pc["spinner"] = "data_lock_rest"
    /\ rest_mutex = NoThread
    /\ rest_mutex' = "spinner"
    /\ LET id == InfoSensorId(sensor_data_subscribers[dsub]) IN
          /\ g_CachedData' =
                [g_CachedData EXCEPT !.sensor_data =
                    MapPut(@, id, DataText(sensor_data_subscribers[dsub], loc["spinner"].value))]
          /\ cacheVersion' =
                [cacheVersion EXCEPT !.sensor_data = MapPut(@, id, locVersion["spinner"])]
    /\ Goto("spinner", "data_return")
    /\ UNCHANGED <<mqtt_callback_mutex, registry, sources, broker_subscriptions,
                   action_pub, cmd_vel_pub, message, rest, sink, item, topic, dsub,
                   calls, counters, version, locVersion, doneVersion, bus, nEvents,
                   nPushFailures>>

DataReturn ==
    /\ pc["spinner"] = "data_return"
    /\ LET id == InfoSensorId(sensor_data_subscribers[dsub]) IN
          doneVersion' = [doneVersion EXCEPT !.sensor_data =
                             MapPut(@, id, IF id \in DOMAIN @
                                              THEN Max(@[id], cacheVersion.sensor_data[id])
                                              ELSE cacheVersion.sensor_data[id])]
    /\ rest_mutex' = NoThread
    /\ EndCall("spinner")
    /\ dsub' = 0
    /\ Goto("spinner", "idle")
    /\ UNCHANGED <<mqtt_callback_mutex, registry, sources, outputs, message, rest,
                   item, topic, counters, version, cacheVersion, bus, nEvents,
                   nPushFailures>>

-----------------------------------------------------------------------------
(* MqttCallback::connected                                                   *)

\* no connected() is running
NoConnect == [saw |-> {}, pushed |-> {}]

\* the retained resources the program holds: the first segment of their topics
PresentResources ==
    (IF DOMAIN found_sensors # {} THEN {"sensor_infos"} ELSE {})
       \cup (IF has_map THEN {"map"} ELSE {})
       \cup (IF has_map_overlay THEN {"map_overlay"} ELSE {})
       \cup {"actions"}

\* the broker client (re)connected: publish_sensor_metadata() is called first
Connected ==
    /\ pc["mqtt"] = "idle"
    /\ nEvents < MaxEvents
    /\ nEvents' = nEvents + 1
    /\ nConnects' = nConnects + 1
    /\ connect' = [saw |-> PresentResources, pushed |-> {}]
    /\ Goto("mqtt", "meta_lock")
    /\ UNCHANGED <<locks, registry, sources, outputs, message, rest, item, topic, dsub,
                   calls, nInfoSubscribe, nInfoDelivered, nInfoDone, versions,
                   nRegisterOk, rejected, bus, nPushFailures>>

\* client_->subscribe("/teleop", 0); "/command"; "/action"
ConnectedSubscribe ==
    /\ pc["mqtt"] = "connected_subscribe"
    /\ connect' = NoConnect
    /\ broker_subscriptions' = broker_subscriptions \cup {"/teleop", "/command", "/action"}
    /\ Goto("mqtt", "idle")
    /\ UNCHANGED <<locks, registry, sources, g_CachedData, action_pub, cmd_vel_pub,
                   message, rest, sink, item, topic, dsub, calls, nInfoSubscribe,
                   nInfoDelivered, nInfoDone, nConnects, versions, nRegisterOk,
                   rejected, bus, nEvents, nPushFailures>>

-----------------------------------------------------------------------------
(* MqttCallback::message_arrived                                             *)

NoMessage == [topic |-> "", payload |-> [kind |-> "none"]]

\* a message on "/action": the payload is the action id as text
ActionMessage(id) == [topic |-> "/action", payload |-> [kind |-> "text", text |-> id]]

\* a message on "/teleop": the payload is a BSON document, or bytes that are none
TeleopMessage(doc) == [topic |-> "/teleop", payload |-> [kind |-> "bson", doc |-> doc]]

\* the messages the remote control publishes
Messages ==
    {ActionMessage("A/a1"), ActionMessage("B/b9"),
     TeleopMessage([vx |-> 1, vz |-> 0]), TeleopMessage([vx |-> 1]),
     [topic |-> "/teleop", payload |-> [kind |-> "text", text |-> "stop"]],
     [topic |-> "/command", payload |-> [kind |-> "text", text |-> "start"]]}

\* json::from_bson(payload) followed by json["vx"], json["vz"] read as double:
\* TRUE when no json::exception is thrown
TeleopDecodes(payload) ==
    /\ payload.kind = "bson"
    /\ {"vx", "vz"} \subseteq DOMAIN payload.doc

\* the broker delivers a message on a topic client_ has subscribed to
MessageArrived(msg) ==
    /\ pc["mqtt"] = "idle"
    /\ msg \in bus.messages
    /\ msg.topic \in broker_subscriptions
    /\ nEvents < MaxEvents
    /\ nEvents' = nEvents + 1
    /\ message' = msg
    /\ Goto("mqtt", "message_arrived")
    /\ UNCHANGED <<locks, registry, sources, outputs, rest, item, topic, dsub, calls,
                   history, bus, nPushFailures>>

\* the body of message_arrived: "/teleop" publishes the decoded twist, or logs
\* the json::exception; "/action" publishes the payload string; any other
\* topic is ignored
MessageHandle ==
    /\ pc["mqtt"] = "message_arrived"
    /\ cmd_vel_pub' =
          IF message.topic = "/teleop" /\ TeleopDecodes(message.payload)
             THEN Append(cmd_vel_pub, [linear_x |-> message.payload.doc.vx,
                                       angular_z |-> message.payload.doc.vz])
             ELSE cmd_vel_pub
    /\ action_pub' =
          IF message.topic = "/action"
             THEN Append(action_pub, message.payload.text) ELSE action_pub
    /\ message' = NoMessage
    /\ Goto("mqtt", "idle")
    /\ UNCHANGED <<locks, registry, sources, g_CachedData, broker_subscriptions, rest,
                   sink, item, topic, dsub, calls, history, bus, nEvents,
                   nPushFailures>>

-----------------------------------------------------------------------------
(* rest_handler, run by mg_mgr_poll on the main thread                       *)

NoRequest == [method |-> "", uri |-> <<>>, body |-> ""]
NoReply == [code |-> 0, body |-> ""]

\* an HTTP request: the URI is a path, one string per segment
Request(method, uri, body) == [method |-> method, uri |-> uri, body |-> body]

\* the branch of the if / else-if chain a request takes
Route(req) ==
    CASE Len(req.uri) >= 2 /\ req.uri[1] = "sensors" ->
            IF Len(req.uri) > 2 THEN "not_found" ELSE "sensor_data"
      [] req.uri = <<"sensors">> ->
            IF req.method = "GET" THEN "sensor_info" ELSE "not_allowed"
      [] req.uri = <<"actions", "execute">> ->
            IF req.method # "POST" THEN "not_allowed"
            ELSE IF req.body # "" THEN "execute" ELSE "not_acceptable"
      [] req.uri = <<"actions">> ->
            IF req.method = "GET" THEN "actions" ELSE "not_allowed"
      [] req.uri = <<"status">> ->
            IF req.method = "GET" THEN "robot_state" ELSE "not_allowed"
      [] req.uri = <<"map", "overlay">> ->
            IF req.method = "GET" THEN "map_overlay" ELSE "not_allowed"
      [] req.uri = <<"map">> ->
            IF req.method = "GET" THEN "map" ELSE "not_allowed"
      [] OTHER -> "not_found"

\* the branches that read g_CachedData under rest_mutex
CacheRoutes == {"sensor_data", "sensor_info", "actions", "robot_state", "map_overlay", "map"}

\* the reply of a branch that does not read the cache
DirectReply(route) ==
    CASE route = "execute" -> [code |-> 202, body |-> ""]
      [] route = "not_acceptable" -> [code |-> 406, body |-> ""]
      [] route = "not_allowed" -> [code |-> 405, body |-> ""]
      [] OTHER -> [code |-> 404, body |-> ""]

\* json::dump(4): the text form, indented
RestIndent == 4
DumpIndent(j, indent) == [text |-> j, indent |-> indent]

RECURSIVE mg_http_reply(_)
\* mg_http_reply(c, code, headers, fmt): the bodies the call can send when fmt
\* is the text itself and no argument follows it.  The text is a printf
\* format: "%%" prints one "%"; any other directive reads an argument that
\* was not passed, which is undefined: it may print nothing or the
\* directive's characters.
mg_http_reply(fmt) ==
    IF fmt = <<>> THEN {<<>>}
    ELSE IF fmt[1] # "%"
       THEN {<<fmt[1]>> \o tail : tail \in mg_http_reply(Tail(fmt))}
    ELSE IF Len(fmt) >= 2 /\ fmt[2] = "%"
       THEN {<<"%">> \o tail : tail \in mg_http_reply(SubSeq(fmt, 3, Len(fmt)))}
    ELSE {out \o tail :
             out \in {<<>>, SubSeq(fmt, 1, IF Len(fmt) >= 2 THEN 2 ELSE 1)},
             tail \in mg_http_reply(SubSeq(fmt, 3, Len(fmt)))}

\* REST_REPLY_200_JSON(J): none of the documents of this model holds a "%", so
\* the body is the dumped text
ReplyJson(j) == {[code |-> 200, body |-> DumpIndent(j, RestIndent)]}

\* the replies a branch that reads the cache can send
CacheReplies(req) ==
    LET route == Route(req) IN
    CASE route = "sensor_data" ->
            IF req.uri[2] \in DOMAIN g_CachedData.sensor_data
               THEN {[code |-> 200, body |-> body] :
                        body \in mg_http_reply(g_CachedData.sensor_data[req.uri[2]])}
               ELSE {[code |-> 404, body |-> ""]}
      [] route = "sensor_info" -> ReplyJson(g_CachedData.sensor_info)
      [] route = "actions" -> ReplyJson(g_CachedData.actions)
      [] route = "robot_state" -> ReplyJson(g_CachedData.robot_state)
      [] route = "map_overlay" -> ReplyJson(g_CachedData.map_overlay)
      [] OTHER -> ReplyJson(g_CachedData.map)

\* the version of the cached value a request reads, and the newest version a
\* publish call that has returned wrote for the resource of the request
CacheVersionOf(req) ==
    IF Route(req) \notin CacheRoutes THEN 0
    ELSE IF Route(req) # "sensor_data" THEN cacheVersion[Route(req)]
    ELSE IF req.uri[2] \in DOMAIN cacheVersion.sensor_data
       THEN cacheVersion.sensor_data[req.uri[2]] ELSE 0
DoneVersionOf(req) ==
    IF Route(req) \notin CacheRoutes THEN 0
    ELSE IF Route(req) # "sensor_data" THEN doneVersion[Route(req)]
    ELSE IF req.uri[2] \in DOMAIN doneVersion.sensor_data
       THEN doneVersion.sensor_data[req.uri[2]] ELSE 0

\* a handler that accepts an invocation and forwards it only while some action
\* is registered
RestHandlerRegisteredOnly(req) ==
    /\ pc["main"] = "idle"
    /\ request' = req
    /\ requestFloor' = DoneVersionOf(req)
    /\ IF Route(req) = "execute"
          THEN nEvents < MaxEvents /\ nEvents' = nEvents + 1
          ELSE UNCHANGED nEvents
    /\ IF Route(req) \in CacheRoutes
          THEN /\ Goto("main", "rest_lock")
               /\ UNCHANGED <<reply, action_pub>>
          ELSE /\ reply' = DirectReply(Route(req))
               /\ action_pub' =
                     IF Route(req) = "execute" /\ DOMAIN registered_actions # {}
                        THEN Append(action_pub, req.body) ELSE action_pub
               /\ Goto("main", "rest_done")
    /\ UNCHANGED <<locks, registry, sources, g_CachedData, broker_subscriptions,
                   cmd_vel_pub, message, sink, item, topic, dsub, calls, history, bus,
                   nPushFailures>>

\* MG_EV_HTTP_MSG: the handler runs up to its first lock, or to its reply
RestHandler(req) ==
    /\ pc["main"] = "idle"
    /\ request' = req
    /\ requestFloor' = DoneVersionOf(req)
    \* an accepted action invocation is one of the run's events
    /\ IF Route(req) = "execute"
          THEN nEvents < MaxEvents /\ nEvents' = nEvents + 1
          ELSE UNCHANGED nEvents
    /\ IF Route(req) \in CacheRoutes
          THEN /\ Goto("main", "rest_lock")
               /\ UNCHANGED <<reply, action_pub>>
          ELSE /\ reply' = DirectReply(Route(req))
               /\ action_pub' = IF Route(req) = "execute"
                                   THEN Append(action_pub, req.body) ELSE action_pub
               /\ Goto("main", "rest_done")
    /\ UNCHANGED <<locks, registry, sources, g_CachedData, broker_subscriptions,
                   cmd_vel_pub, message, sink, item, topic, dsub, calls, history, bus,
                   nPushFailures>>

\* REST_REPLY_200_JSON / REST_REPLY_200_TEXT / REST_REPLY_404 from the cache
RestReply ==
    /\ pc["main"] = "rest_lock"
    /\ rest_mutex = NoThread
    /\ rest_mutex' = "main"
    /\ reply' \in CacheReplies(request)
    /\ Goto("main", "rest_done")
    /\ UNCHANGED <<mqtt_callback_mutex, registry, sources, outputs, message, request,
                   requestFloor, item, topic, dsub, calls, history, bus, nEvents,
                   nPushFailures>>

\* a handler that returns with rest_mutex still locked
RestDoneKeepsLock ==
    /\ pc["main"] = "rest_done"
    /\ request' = NoRequest
    /\ reply' = NoReply
    /\ requestFloor' = 0
    /\ Goto("main", "idle")
    /\ UNCHANGED <<locks, registry, sources, outputs, message, item, topic, dsub,
                   calls, history, bus, nEvents, nPushFailures>>

\* the handler returns; mtx, when taken, is released
RestDone ==
    /\ pc["main"] = "rest_done"
    /\ rest_mutex' = IF rest_mutex = "main" THEN NoThread ELSE rest_mutex
    /\ request' = NoRequest
    /\ reply' = NoReply
    /\ requestFloor' = 0
    /\ Goto("main", "idle")
    /\ UNCHANGED <<mqtt_callback_mutex, registry, sources, outputs, message, item,
                   topic, dsub, calls, history, bus, nEvents, nPushFailures>>

\* the requests the pull clients send
Requests ==
    {Request("GET", <<"sensors">>, ""), Request("GET", <<"sensors", "s1">>, ""),
     Request("GET", <<"actions">>, "")}

\* the requests of a client that reads the sensors
SensorRequests ==
    {Request("GET", <<"sensors">>, ""), Request("GET", <<"sensors", "s1">>, ""),
     Request("GET", <<"sensors", "s2">>, "")}

\* every route with GET and with POST, with and without a body, and paths no
\* route matches
AllRequests ==
    {Request(method, uri, "") :
        method \in {"GET", "POST"},
        uri \in {<<"sensors">>, <<"sensors", "s1">>, <<"sensors", "s1", "x">>,
                 <<"actions">>, <<"actions", "execute">>, <<"status">>, <<"map">>,
                 <<"map", "overlay">>, <<"nowhere">>}}
    \cup {Request("POST", <<"actions", "execute">>, id) : id \in {"A/a1", "B/b9"}}

-----------------------------------------------------------------------------
(* The system                                                                *)

\* What runs around the program in one run: the topics ros::master::getTopics
\* lists (sensor nodes advertise their info topics), the channels in use, how
\* many push-sink calls the broker client lets fail, the requests the pull
\* clients send and the messages the broker delivers.
SensorNodes ==
    [topics |-> Topics, channels |-> {}, push_failures |-> 0,
     requests |-> SensorRequests, messages |-> {}]
RobotNodes ==
    [topics |-> {TopicRosout}, channels |-> Channels, push_failures |-> MaxPushFailures,
     requests |-> Requests, messages |-> {}]
OneSensorNode ==
    [topics |-> {TopicA}, channels |-> {}, push_failures |-> MaxPushFailures,
     requests |-> SensorRequests, messages |-> {}]
\* a sensor node next to the robot's nodes; a push that fails takes the same
\* steps as one that succeeds, so none fails here
RobotAndSensorNodes ==
    [topics |-> {TopicA}, channels |-> Channels, push_failures |-> 0,
     requests |-> Requests, messages |-> {ActionMessage("A/a1")}]
\* the app: pull clients on every route and a remote control on the broker,
\* next to the node that registers the actions
AppClients ==
    [topics |-> {TopicRosout}, channels |-> {"register_actions"}, push_failures |-> 0,
     requests |-> AllRequests, messages |-> Messages]
Deployments == {SensorNodes, RobotNodes, OneSensorNode, RobotAndSensorNodes, AppClients}

\* a cache whose json members are default-constructed
InitialCacheNull ==
    [sensor_info |-> JsonNull, sensor_data |-> EmptyMap, actions |-> JsonNull,
     robot_state |-> JsonNull, map |-> JsonNull, map_overlay |-> JsonNull]

\* the initializers of g_CachedData: json::array() for the two lists,
\* json::object() for the three documents, an empty sensor_data map
InitialCache ==
    [sensor_info |-> JsonArray(<<>>),
     sensor_data |-> EmptyMap,
     actions |-> JsonArray(<<>>),
     robot_state |-> JsonObject(EmptyMap),
     map |-> JsonObject(EmptyMap),
     map_overlay |-> JsonObject(EmptyMap)]

Init ==
    /\ pc = [th \in Threads |-> "idle"]
    /\ mqtt_callback_mutex = NoThread
    /\ rest_mutex = NoThread
    /\ active_subscribers = {}
    /\ found_sensors = EmptyMap
    /\ sensor_data_subscribers = <<>>
    /\ registered_actions = EmptyMap
    /\ map = JsonNull
    /\ has_map = FALSE
    /\ map_overlay = JsonNull
    /\ has_map_overlay = FALSE
    /\ g_CachedData = InitialCache
    /\ sink = EmptyMap
    /\ broker_subscriptions = {}
    /\ action_pub = <<>>
    /\ cmd_vel_pub = <<>>
    /\ message = NoMessage
    /\ request = NoRequest
    /\ reply = NoReply
    /\ requestFloor = 0
    /\ item = NoTopic
    /\ topic = NoTopic
    /\ dsub = 0
    /\ loc = [th \in Threads |-> JsonNull]
    /\ attempts = [th \in Threads |-> 0]
    /\ failures = [th \in Threads |-> 0]
    /\ nInfoSubscribe = [t \in Topics |-> 0]
    /\ nInfoDelivered = [t \in Topics |-> 0]
    /\ nInfoDone = [t \in Topics |-> 0]
    /\ nConnects = 0
    /\ connect = NoConnect
    /\ nRegisterOk = 0
    /\ rejected = {}
    /\ bus \in Deployments
    /\ nEvents = 0
    /\ nPushFailures = 0
    /\ version = [found_sensors |-> 0, registered_actions |-> 0, map |-> 0,
                  map_overlay |-> 0, robot_state |-> 0, sensor_data |-> 0]
    /\ locVersion = [th \in Threads |-> 0]
    /\ cacheVersion = [sensor_info |-> 0, actions |-> 0, map |-> 0, map_overlay |-> 0,
                       robot_state |-> 0, sensor_data |-> EmptyMap]
    /\ doneVersion = [sensor_info |-> 0, actions |-> 0, map |-> 0, map_overlay |-> 0,
                      robot_state |-> 0, sensor_data |-> EmptyMap]

Publishers == {"spinner", "mqtt"}

Next ==
    \/ \E t \in Topics : ForEachTopic(t)
    \/ CountActive
    \/ CountFound
    \/ NodeSubscribeInfo
    \/ InsertActive
    \/ \E req \in bus.requests : RestHandler(req)
    \/ RestReply
    \/ RestDone
    \/ \E t \in Topics : InfoCallback(t)
    \/ \E msg \in SensorInfos : InfoStore(msg)
    \/ InfoErase
    \/ InfoSubscribe
    \/ InfoReturn
    \/ \E k \in 1..Len(sensor_data_subscribers) : DataCallback(k)
    \/ DataPush
    \/ DataPushBson
    \/ DataWrite
    \/ DataReturn
    \/ RobotStateCallback
    \/ RobotStatePushJson
    \/ RobotStatePushBson
    \/ RobotStateWrite
    \/ RobotStateReturn
    \/ MapCallback
    \/ MapCallbackHasMap
    \/ OverlayCallback
    \/ OverlayCallbackHasOverlay
    \/ \E prefix \in Prefixes : \E actions \in ActionLists : RegisterActions(prefix, actions)
    \/ RegisterActionsReturn
    \/ Connected
    \/ ConnectedSubscribe
    \/ \E msg \in Messages : MessageArrived(msg)
    \/ MessageHandle
    \/ \E th \in Publishers :
          \/ SensorMetadataBuild(th)
          \/ SensorMetadataPushJson(th)
          \/ SensorMetadataPushBson(th)
          \/ SensorMetadataWrite(th)
          \/ SensorMetadataReturn(th)
          \/ MapCheck(th)
          \/ MapPushJson(th)
          \/ MapPushBson(th)
          \/ MapWrite(th)
          \/ MapReturn(th)
          \/ OverlayCheck(th)
          \/ OverlayPushJson(th)
          \/ OverlayPushBson(th)
          \/ OverlayWrite(th)
          \/ OverlayReturn(th)
          \/ ActionsBuild(th)
          \/ ActionsPushJson(th)
          \/ ActionsPushBson(th)
          \/ ActionsWrite(th)
          \/ ActionsReturn(th)

Spec == Init /\ [][Next]_vars

-----------------------------------------------------------------------------
(* Accesses to the subscription registry                                     *)

\* The access to active_subscribers or found_sensors that thread th performs
\* with its next step: the map, whether the step may change it, and whether
\* the step runs with mqtt_callback_mutex held.
RegistryAccess(th) ==
    CASE th = "main" /\ pc[th] = "main_count_active" ->
            {[map |-> "active_subscribers", write |-> FALSE, locked |-> FALSE]}
      [] th = "main" /\ pc[th] = "main_count_found" ->
            {[map |-> "found_sensors", write |-> FALSE, locked |-> FALSE]}
      [] th = "main" /\ pc[th] = "main_insert" ->
            {[map |-> "active_subscribers", write |-> TRUE, locked |-> FALSE]}
      [] th = "spinner" /\ pc[th] = "info_lock" /\ mqtt_callback_mutex = NoThread ->
            {[map |-> "found_sensors", write |-> TRUE, locked |-> TRUE]}
      [] th = "spinner" /\ pc[th] = "info_erase" ->
            {[map |-> "active_subscribers", write |-> TRUE, locked |-> FALSE]}
      [] th = "spinner" /\ pc[th] \in {"info_subscribe", "data_push", "data_push_bson"} ->
            {[map |-> "found_sensors", write |-> FALSE, locked |-> FALSE]}
      [] th \in {"spinner", "mqtt"} /\ pc[th] = "meta_lock"
            /\ mqtt_callback_mutex = NoThread ->
            {[map |-> "found_sensors", write |-> FALSE, locked |-> TRUE]}
      [] OTHER -> {}

\* two threads are at accesses to the same map, one of them a write, and the
\* registry lock does not order them
RegistryRace ==
    \E a, b \in Threads :
       /\ a # b
       /\ \E x \in RegistryAccess(a) : \E y \in RegistryAccess(b) :
             /\ x.map = y.map
             /\ x.write \/ y.write
             /\ ~(x.locked /\ y.locked)

\* the data subscriptions created for topic t
DataSubscriptionsOf(t) ==
    {k \in 1..Len(sensor_data_subscribers) : sensor_data_subscribers[k].info = t}

-----------------------------------------------------------------------------
(* Claims                                                                    *)

\* C1: for every discovered identifier there is never more than one data
\* subscription, and exactly one once an info callback for it has finished
\* with a numeric or text value kind, whatever the interleaving of the
\* discovery loop with the info callbacks.
C1_AtMostOneDataSubscription ==
    \A t \in Topics :
       /\ Cardinality(DataSubscriptionsOf(t)) <= 1
       /\ (/\ nInfoDone[t] > 0
           /\ topic # t
           /\ found_sensors[t].value_type # "TYPE_OTHER")
             => Cardinality(DataSubscriptionsOf(t)) = 1

\* C2: the discovery loop creates a metadata subscription at most once for
\* each identifier over the whole run.
C2_DiscoveryIdempotent == \A t \in Topics : nInfoSubscribe[t] <= 1

\* C3: once an info callback for an identifier has finished, the identifier
\* has no entry in active_subscribers.
C3_InfoSubscriptionTornDown ==
    \A t \in Topics : nInfoDone[t] > 0 => t \notin active_subscribers

\* C8: no two threads access active_subscribers or found_sensors at the same
\* time, one of them writing, unless both hold the registry lock.
C8_RegistryGuardedByLock == ~RegistryRace

\* the steps that call try_publish / try_publish_binary
PushPcs ==
    {"meta_push_json", "meta_push_bson", "map_push_json", "map_push_bson",
     "overlay_push_json", "overlay_push_bson", "actions_push_json", "actions_push_bson",
     "state_push_json", "state_push_bson", "data_push", "data_push_bson"}

\* the steps right after the cache write of a publish path
ReturnPcs ==
    {"meta_return", "map_return", "overlay_return", "actions_return", "state_return",
     "data_return"}

\* the steps of a publish path from its first push to its return
PublishPcs ==
    PushPcs \cup ReturnPcs \cup
    {"meta_lock_rest", "map_lock_rest", "overlay_lock_rest", "actions_lock_rest",
     "state_lock_rest", "data_lock_rest"}

\* the value the publish path thread th has just left in the cache
CacheHolds(th) ==
    CASE pc[th] = "meta_return" -> g_CachedData.sensor_info = loc[th]
      [] pc[th] = "actions_return" -> g_CachedData.actions = loc[th]
      [] pc[th] = "state_return" -> g_CachedData.robot_state = loc[th]
      [] pc[th] = "map_return" ->
            /\ cacheVersion.map > 0
            /\ g_CachedData.map = MapJson(MapMsg(cacheVersion.map))
      [] pc[th] = "overlay_return" ->
            /\ cacheVersion.map_overlay > 0
            /\ g_CachedData.map_overlay = OverlayJson(OverlayMsg(cacheVersion.map_overlay))
      [] pc[th] = "data_return" ->
            LET sub == sensor_data_subscribers[dsub] IN
            /\ InfoSensorId(sub) \in DOMAIN g_CachedData.sensor_data
            /\ g_CachedData.sensor_data[InfoSensorId(sub)] = DataText(sub, loc[th].value)
      [] OTHER -> TRUE

\* C4: for every resource the versions of the values the cache holds never
\* go back: a value published earlier is never written over one published
\* later.
C4_CacheInPublishOrder ==
    [][/\ \A r \in {"sensor_info", "actions", "map", "map_overlay", "robot_state"} :
             cacheVersion'[r] >= cacheVersion[r]
       /\ \A id \in DOMAIN cacheVersion.sensor_data :
             cacheVersion'.sensor_data[id] >= cacheVersion.sensor_data[id]]_vars

\* C5: a push that fails falls through to the next step of the same publish
\* path (it is neither propagated nor retried), and every publish path that
\* reaches its return has called each of the two sinks once and has written
\* its value to the cache, however many of the pushes failed.
C5_CacheWrittenDespitePushFailure ==
    /\ [](\A th \in Threads :
             /\ pc[th] \in ReturnPcs => attempts[th] = 2 /\ CacheHolds(th)
             /\ pc[th] \notin PublishPcs => attempts[th] = 0 /\ failures[th] = 0)
    /\ [][\A th \in Threads :
             failures'[th] > failures[th] =>
                /\ pc[th] \in PushPcs
                /\ pc'[th] \in PublishPcs \ {pc[th]}
                /\ attempts'[th] = attempts[th] + 1
                /\ sink' = sink]_vars

C5_BothPushesFailed ==
    \E th \in Threads : pc[th] \in ReturnPcs /\ failures[th] = 2 /\ CacheHolds(th)

\* C6 (as stated): in every reachable state no thread holds both
\* mqtt_callback_mutex and rest_mutex.
C6_NoThreadHoldsBothLocks ==
    \A th \in Threads : ~(mqtt_callback_mutex = th /\ rest_mutex = th)

\* C6 (amended): a thread holds both locks only at the end of
\* publish_sensor_metadata, where rest_mutex was taken after
\* mqtt_callback_mutex; no thread takes mqtt_callback_mutex while it holds
\* rest_mutex.
C6_LocksNestOnlyInSensorMetadata ==
    /\ [](\A th \in Threads :
             (mqtt_callback_mutex = th /\ rest_mutex = th) => pc[th] = "meta_return")
    /\ [][\A th \in Threads :
             /\ (mqtt_callback_mutex' = th /\ mqtt_callback_mutex # th) => rest_mutex # th
             /\ (rest_mutex' = th /\ rest_mutex # th /\ mqtt_callback_mutex = th)
                   => pc[th] = "meta_lock_rest"]_vars

C6_BothLocksHeld ==
    \E th \in Threads :
       pc[th] = "meta_return" /\ mqtt_callback_mutex = th /\ rest_mutex = th

\* C7 (as stated): every push-sink call is made by a thread that holds
\* neither mqtt_callback_mutex nor rest_mutex.
C7_PushHoldsNoLock ==
    \A th \in Threads :
       pc[th] \in PushPcs => mqtt_callback_mutex # th /\ rest_mutex # th

\* C7 (amended): no push-sink call is made by a thread that holds rest_mutex;
\* the two pushes of the sensor list are made with mqtt_callback_mutex held,
\* every other push with no lock held.
C7_PushHoldsRegistryLockOnlyForSensorList ==
    \A th \in Threads :
       pc[th] \in PushPcs =>
          /\ rest_mutex # th
          /\ mqtt_callback_mutex = th <=> pc[th] \in {"meta_push_json", "meta_push_bson"}

C7_SensorListPushedUnderLock ==
    \E th \in Threads :
       pc[th] = "meta_push_bson" /\ mqtt_callback_mutex = th /\ attempts[th] = 1

-----------------------------------------------------------------------------
(* Locks and scheduling                                                      *)

\* the steps that begin by locking mqtt_callback_mutex, and rest_mutex
RegistryLockPcs == {"info_lock", "meta_lock"}
CacheLockPcs ==
    {"meta_lock_rest", "map_lock_rest", "overlay_lock_rest", "actions_lock_rest",
     "state_lock_rest", "data_lock_rest", "rest_lock"}

AtLock(th) == pc[th] \in RegistryLockPcs \cup CacheLockPcs

\* the thread that holds the lock th is waiting for; NoThread when th is not
\* at a lock or the lock is free
WaitsFor(th) ==
    IF pc[th] \in RegistryLockPcs THEN mqtt_callback_mutex
    ELSE IF pc[th] \in CacheLockPcs THEN rest_mutex
    ELSE NoThread

\* some threads wait for locks that only threads among them hold
LockDeadlock ==
    \E S \in (SUBSET Threads) \ {{}} : \A th \in S : WaitsFor(th) \in S

\* the steps inside a handler, by the thread that takes them: every step
\* but the arrival of a message, a request or a topic of the discovery loop
PublishProceed(th) ==
    \/ SensorMetadataBuild(th) \/ SensorMetadataPushJson(th)
    \/ SensorMetadataPushBson(th) \/ SensorMetadataWrite(th)
    \/ SensorMetadataReturn(th)
    \/ MapCheck(th) \/ MapPushJson(th) \/ MapPushBson(th) \/ MapWrite(th)
    \/ MapReturn(th)
    \/ OverlayCheck(th) \/ OverlayPushJson(th) \/ OverlayPushBson(th)
    \/ OverlayWrite(th) \/ OverlayReturn(th)
    \/ ActionsBuild(th) \/ ActionsPushJson(th) \/ ActionsPushBson(th)
    \/ ActionsWrite(th) \/ ActionsReturn(th)

MainProceed ==
    CountActive \/ CountFound \/ NodeSubscribeInfo \/ InsertActive \/ RestReply \/ RestDone

SpinnerProceed ==
    \/ \E msg \in SensorInfos : InfoStore(msg)
    \/ InfoErase \/ InfoSubscribe \/ InfoReturn
    \/ DataPush \/ DataPushBson \/ DataWrite \/ DataReturn
    \/ RobotStatePushJson \/ RobotStatePushBson \/ RobotStateWrite \/ RobotStateReturn
    \/ MapCallbackHasMap \/ OverlayCallbackHasOverlay \/ RegisterActionsReturn
    \/ PublishProceed("spinner")

MqttProceed == ConnectedSubscribe \/ MessageHandle \/ PublishProceed("mqtt")

\* Fair scheduling, with a sensor node and the robot's nodes on the bus so that
\* every path that takes a lock runs: a thread inside a handler that can take its next step again
\* and again does take it; std::mutex hands the lock to a thread that keeps
\* asking for it.  Nothing obliges the environment to send a message.
FairInit == Init /\ bus = RobotAndSensorNodes

FairSpec ==
    /\ FairInit /\ [][Next]_vars
    /\ SF_vars(MainProceed) /\ SF_vars(SpinnerProceed) /\ SF_vars(MqttProceed)

\* C9: no set of threads is ever waiting for locks held only inside the set,
\* and under fair scheduling a thread that has reached a lock gets past it.
C9_NoLockDeadlock ==
    /\ [](~LockDeadlock)
    /\ \A th \in Threads : AtLock(th) ~> ~AtLock(th)

C9_ThreadsWaitInChain ==
    /\ pc["mqtt"] = "meta_lock" /\ WaitsFor("mqtt") = "spinner"
    /\ pc["spinner"] = "meta_lock_rest" /\ WaitsFor("spinner") = "main"

\* the entries the action list must have for the registry reg: one for each
\* action of each prefix, keyed prefix/action_id
ExpectedActions(reg) ==
    UNION {{[action_id |-> <<prefix, "/", reg[prefix][i].action_id>>,
             action_name |-> reg[prefix][i].action_name,
             enabled |-> reg[prefix][i].enabled] : i \in 1..Len(reg[prefix])} :
           prefix \in DOMAIN reg}

\* the steps of a registerActions call after the registry was changed
RegisterPcs ==
    {"actions_build", "actions_push_json", "actions_push_bson", "actions_lock_rest",
     "actions_return", "register_return"}

\* C10: a registration replaces the list of its prefix and leaves the other
\* prefixes alone; when its publish_actions has written the cache, the list
\* it built and cached has exactly one entry prefix/action_id for each action
\* of the latest list of each prefix; with no broker-connect callback in the
\* run, a push that did not fail left that list in the sink; and every
\* registration that has returned has returned success.
C10_ReplaceOnReregister ==
    /\ [](pc["spinner"] = "actions_return" =>
            LET items == loc["spinner"].items IN
            /\ {items[i] : i \in 1..Len(items)} = ExpectedActions(registered_actions)
            /\ Cardinality(ExpectedActions(registered_actions)) = Len(items)
            /\ g_CachedData.actions = loc["spinner"]
            /\ (nConnects = 0 /\ failures["spinner"] = 0) =>
                  /\ sink[<<"actions", "json">>].data = Dump(loc["spinner"])
                  /\ sink[<<"actions", "bson">>].data = ToBson(loc["spinner"]))
    /\ [](nRegisterOk + (IF pc["spinner"] \in RegisterPcs THEN 1 ELSE 0)
             = version.registered_actions)
    /\ [][version.registered_actions' # version.registered_actions =>
             \E prefix \in Prefixes : \E actions \in ActionLists :
                registered_actions' = MapPut(registered_actions, prefix, actions)]_vars

C10_PrefixReregistered ==
    /\ pc["spinner"] = "actions_return"
    /\ version.registered_actions = 2
    /\ registered_actions = MapPut(EmptyMap, "A", <<ActionInfo("a3", "Dock")>>)
    /\ <<"actions", "json">> \in DOMAIN sink
    /\ sink[<<"actions", "json">>].data =
          Dump(JsonArray(ActionInfosOf("A", <<ActionInfo("a1", "Start"),
                                              ActionInfo("a2", "Stop")>>)))
    /\ g_CachedData.actions =
          JsonArray(<<[action_id |-> <<"A", "/", "a3">>, action_name |-> "Dock",
                       enabled |-> TRUE]>>)

\* C11: once subscribe_to_sensor has refused the descriptor of an identifier
\* (its value kind is neither numeric nor text), the descriptor is stored in
\* found_sensors and no data subscription is created for that identifier at
\* any later time.
C11_RefusedKindNeverSubscribed ==
    [][\A t \in rejected :
          /\ t \in DOMAIN found_sensors
          /\ DataSubscriptionsOf(t)' = DataSubscriptionsOf(t)]_vars

RetainedFamilies == {"sensor_infos", "map", "map_overlay", "actions"}
TransientFamilies == {"sensors", "robot_state"}

\* C13: whatever the broker holds for a topic of the sensor list, the map, the
\* map overlay or the action list was pushed retained with QoS 1; whatever it
\* holds for a per-sensor value or the robot status was pushed non-retained
\* with the client's default (best-effort) QoS; nothing else is pushed.
C13_RetainedByResource ==
    \A t \in DOMAIN sink :
       /\ t[1] \in RetainedFamilies \cup TransientFamilies
       /\ t[1] \in RetainedFamilies =>
             /\ sink[t].how.retained
             /\ sink[t].how.qos = QosRetained
       /\ t[1] \in TransientFamilies =>
             /\ ~sink[t].how.retained
             /\ sink[t].how.qos = "default"

\* the broker holds a sensor list and a value of one of its sensors
C13_ListAndValuePushed ==
    /\ <<"sensor_infos", "json">> \in DOMAIN sink
    /\ <<"sensor_infos", "bson">> \in DOMAIN sink
    /\ \E id \in SensorIds :
          /\ <<"sensors", id, "data">> \in DOMAIN sink
          /\ <<"sensors", id, "bson">> \in DOMAIN sink

\* the paths of the pull routes, and the method each of them serves
PullPaths ==
    {<<"sensors">>, <<"status">>, <<"map">>, <<"map", "overlay">>, <<"actions">>,
     <<"actions", "execute">>} \cup {<<"sensors", id>> : id \in SensorIds}
RouteMethod(uri) == IF uri = <<"actions", "execute">> THEN "POST" ELSE "GET"

\* C14: a request on a pull route with another method than the route's is
\* answered 405; a POST on /actions/execute with an empty body is answered 406
\* and forwards nothing; a request on a path no route matches is answered 404;
\* and none of these requests changes the cache, the registries or the action
\* output.
C14_WrongMethodNotAllowed ==
    /\ [](pc["main"] = "rest_done" =>
            /\ (request.uri \in PullPaths /\ request.method # RouteMethod(request.uri))
                  => reply.code = 405
            /\ (/\ request.uri = <<"actions", "execute">>
                /\ request.method = "POST"
                /\ request.body = "") => reply.code = 406
            /\ request.uri \notin PullPaths => reply.code = 404)
    /\ [][(pc'["main"] = "rest_done" /\ pc["main"] # "rest_done"
              /\ reply'.code \in {404, 405, 406})
            => UNCHANGED <<g_CachedData, registry, registered_actions, action_pub>>]_vars

\* C15: a GET answered before the resource had any event finds the initial
\* cache: /sensors and /actions answer 200 with the empty array, /status, /map
\* and /map/overlay answer 200 with the empty object, and /sensors/{id}
\* answers 404 for an id no data callback has written.
C15_InitialSnapshot ==
    (pc["main"] = "rest_done" /\ request.method = "GET") =>
       /\ (request.uri = <<"sensors">> /\ version.found_sensors = 0) =>
             reply = [code |-> 200, body |-> DumpIndent(JsonArray(<<>>), RestIndent)]
       /\ (request.uri = <<"actions">> /\ version.registered_actions = 0) =>
             reply = [code |-> 200, body |-> DumpIndent(JsonArray(<<>>), RestIndent)]
       /\ (request.uri = <<"status">> /\ version.robot_state = 0) =>
             reply = [code |-> 200, body |-> DumpIndent(JsonObject(EmptyMap), RestIndent)]
       /\ (request.uri = <<"map">> /\ version.map = 0) =>
             reply = [code |-> 200, body |-> DumpIndent(JsonObject(EmptyMap), RestIndent)]
       /\ (request.uri = <<"map", "overlay">> /\ version.map_overlay = 0) =>
             reply = [code |-> 200, body |-> DumpIndent(JsonObject(EmptyMap), RestIndent)]
       /\ \A id \in SensorIds :
             (request.uri = <<"sensors", id>> /\ id \notin DOMAIN cacheVersion.sensor_data)
                => reply = [code |-> 404, body |-> ""]

\* GET /status is answered with the empty object while the broker client has
\* connected and an action list is registered
C15_StatusBeforeRobotState ==
    /\ pc["main"] = "rest_done"
    /\ request = Request("GET", <<"status">>, "")
    /\ reply = [code |-> 200, body |-> DumpIndent(JsonObject(EmptyMap), RestIndent)]
    /\ nConnects = 1
    /\ version.registered_actions = 1

\* C16: when a data callback is about to return, the cache holds the text form
\* of its value under the id the sensor reported; a GET /sensors/{id} for an id
\* with a cached value is answered 200 with that text; and a data callback
\* changes no cache entry but the one of its sensor's id.
C16_ValueServedAsText ==
    /\ [](pc["spinner"] = "data_return" =>
            LET sub == sensor_data_subscribers[dsub] IN
            /\ InfoSensorId(sub) \in DOMAIN g_CachedData.sensor_data
            /\ g_CachedData.sensor_data[InfoSensorId(sub)]
                  = DataText(sub, loc["spinner"].value))
    /\ [](\A id \in SensorIds :
            (/\ pc["main"] = "rest_done"
             /\ request = Request("GET", <<"sensors", id>>, "")
             /\ id \in DOMAIN g_CachedData.sensor_data)
               => reply = [code |-> 200, body |-> g_CachedData.sensor_data[id]])
    /\ [][pc["spinner"] = "data_lock_rest" /\ pc'["spinner"] = "data_return" =>
            LET id == InfoSensorId(sensor_data_subscribers[dsub]) IN
            /\ \A other \in DOMAIN g_CachedData.sensor_data \ {id} :
                  /\ other \in DOMAIN g_CachedData'.sensor_data
                  /\ g_CachedData'.sensor_data[other] = g_CachedData.sensor_data[other]
            /\ DOMAIN g_CachedData'.sensor_data = DOMAIN g_CachedData.sensor_data \cup {id}
            /\ [g_CachedData' EXCEPT !.sensor_data = g_CachedData.sensor_data]
                  = g_CachedData]_vars

\* C17: a POST /actions/execute with a non-empty body is answered 202 and its
\* body is appended once, unchanged, to the action output; a message on the
\* "/action" topic of the broker has its non-empty payload appended once,
\* unchanged; the action output changes in no other step; and neither step
\* changes the action registry or the cache, whether or not the id is
\* registered.
C17_ActionForwardedOnce ==
    [][/\ (/\ pc["main"] = "idle"
           /\ pc'["main"] = "rest_done"
           /\ request' \in {Request("POST", <<"actions", "execute">>, id) :
                               id \in {"A/a1", "B/b9"}})
             => /\ action_pub' = Append(action_pub, request'.body)
                /\ reply'.code = 202
                /\ UNCHANGED <<registered_actions, g_CachedData>>
       /\ (/\ pc["mqtt"] = "message_arrived"
           /\ pc'["mqtt"] = "idle"
           /\ message \in {ActionMessage(id) : id \in {"A/a1", "B/b9"}})
             => /\ action_pub' = Append(action_pub, message.payload.text)
                /\ UNCHANGED <<registered_actions, g_CachedData>>
       /\ action_pub' # action_pub
             => \/ pc["main"] = "idle" /\ pc'["main"] = "rest_done"
                \/ pc["mqtt"] = "message_arrived" /\ pc'["mqtt"] = "idle"]_vars

\* an id of no registered prefix has been forwarded from the pull interface
\* while prefix A is registered
C17_UnregisteredIdForwarded ==
    /\ pc["main"] = "rest_done"
    /\ request = Request("POST", <<"actions", "execute">>, "B/b9")
    /\ reply.code = 202
    /\ action_pub = <<"B/b9">>
    /\ DOMAIN registered_actions = {"A"}

C20_DescriptorImmutable ==
    /\ [][\A t \in DOMAIN found_sensors :
             /\ t \in DOMAIN found_sensors'
             /\ found_sensors'[t] = found_sensors[t]]_vars
    /\ [](\A k \in 1..Len(sensor_data_subscribers) :
             /\ InfoSensorId(sensor_data_subscribers[k])
                   = sensor_data_subscribers[k].data_topic
             /\ found_sensors[sensor_data_subscribers[k].info].value_type
                   = sensor_data_subscribers[k].type)

\* the retained resources: the first segment of the push topic, and the member
\* of the cache that holds the same resource
RetainedResources ==
    {[family |-> "sensor_infos", member |-> "sensor_info"],
     [family |-> "map", member |-> "map"],
     [family |-> "map_overlay", member |-> "map_overlay"],
     [family |-> "actions", member |-> "actions"]}

\* C21: whenever no callback of the bus or of the broker is running and no
\* push has failed, the text the broker holds for a retained resource is the
\* dump of the value the cache holds for it.
C21_SinksAgree ==
    (pc["spinner"] = "idle" /\ pc["mqtt"] = "idle" /\ nPushFailures = 0) =>
       \A r \in RetainedResources :
          <<r.family, "json">> \in DOMAIN sink =>
             sink[<<r.family, "json">>].data = Dump(g_CachedData[r.member])

\* both topics of a retained resource
TopicsOf(family) == {<<family, "json">>, <<family, "bson">>}

\* C22: connected() passes each check as the program's state says: it goes on
\* to push the sensor list exactly when a descriptor is stored, the map
\* exactly when has_map, the map overlay exactly when has_map_overlay, and
\* the action list always.  When its publishes are over it has pushed to both
\* topics of every resource that was present when it began and of the action
\* list, and to no topic of a resource that is not present.  A resource that
\* was never received is at no time held by the broker and its cache entry is
\* the initial one.
C22_ConnectRepublishesPresent ==
    /\ [][/\ (pc["mqtt"] = "meta_lock" /\ pc'["mqtt"] # "meta_lock") =>
                (pc'["mqtt"] = "meta_push_json") = (DOMAIN found_sensors # {})
          /\ (pc["mqtt"] = "map_check" /\ pc'["mqtt"] # "map_check") =>
                (pc'["mqtt"] = "map_push_json") = has_map
          /\ (pc["mqtt"] = "overlay_check" /\ pc'["mqtt"] # "overlay_check") =>
                (pc'["mqtt"] = "overlay_push_json") = has_map_overlay
          /\ (pc["mqtt"] = "actions_build" /\ pc'["mqtt"] # "actions_build") =>
                pc'["mqtt"] = "actions_push_json"]_vars
    /\ [](pc["mqtt"] = "connected_subscribe" =>
             /\ \A family \in connect.saw : TopicsOf(family) \subseteq connect.pushed
             /\ \A t \in connect.pushed : t[1] \in PresentResources
             /\ <<"actions", "json">> \in DOMAIN sink \/ nPushFailures > 0)
    /\ [](/\ version.found_sensors = 0 =>
                /\ TopicsOf("sensor_infos") \cap DOMAIN sink = {}
                /\ g_CachedData.sensor_info = InitialCache.sensor_info
          /\ version.map = 0 =>
                /\ TopicsOf("map") \cap DOMAIN sink = {}
                /\ g_CachedData.map = InitialCache.map
          /\ version.map_overlay = 0 =>
                /\ TopicsOf("map_overlay") \cap DOMAIN sink = {}
                /\ g_CachedData.map_overlay = InitialCache.map_overlay)

\* connected() began with a map and no map overlay and has republished the
\* map and the empty action list
C22_MapRepublishedOnConnect ==
    /\ pc["mqtt"] = "connected_subscribe"
    /\ connect.saw = {"map", "actions"}
    /\ connect.pushed = TopicsOf("map") \cup TopicsOf("actions")
    /\ sink[<<"actions", "json">>].data = Dump(JsonArray(<<>>))
    /\ version.map_overlay = 0

\* C23: no two entries of a sensor list a publish path has built, or of the
\* cached sensor list, carry the same sensor_id; and no two data
\* subscriptions of different identifiers write the same per-sensor value of
\* the cache.
C23_SensorIdsUnique ==
    /\ \A th \in Publishers :
          pc[th] \in {"meta_push_json", "meta_push_bson", "meta_lock_rest", "meta_return"}
             => \A i, j \in 1..Len(loc[th].items) :
                   loc[th].items[i].sensor_id = loc[th].items[j].sensor_id => i = j
    /\ \A i, j \in 1..Len(g_CachedData.sensor_info.items) :
          g_CachedData.sensor_info.items[i].sensor_id
             = g_CachedData.sensor_info.items[j].sensor_id => i = j
    /\ \A k1, k2 \in 1..Len(sensor_data_subscribers) :
          InfoSensorId(sensor_data_subscribers[k1])
             = InfoSensorId(sensor_data_subscribers[k2])
          => sensor_data_subscribers[k1].info = sensor_data_subscribers[k2].info

\* C24: under fair scheduling, for every identifier that matches the discovery
\* pattern, a delivered metadata message gets past the registry lock, a
\* delivered message with a numeric or text value kind leads to a data
\* subscription for the identifier, and no step removes or changes an entry of
\* the list of data subscriptions.
C24_DataActiveTerminal ==
    /\ \A t \in {n \in Topics : topic_regex(n)} :
          /\ (pc["spinner"] = "info_lock" /\ topic = t)
                ~> (pc["spinner"] = "info_erase" /\ topic = t)
          /\ (/\ pc["spinner"] = "info_erase" /\ topic = t
              /\ found_sensors[t].value_type \in {"TYPE_DOUBLE", "TYPE_STRING"})
                ~> (DataSubscriptionsOf(t) # {})
    /\ [][/\ Len(sensor_data_subscribers') >= Len(sensor_data_subscribers)
          /\ \A k \in 1..Len(sensor_data_subscribers) :
                sensor_data_subscribers'[k] = sensor_data_subscribers[k]]_vars

C24_TextSensorSubscribed ==
    /\ pc["spinner"] = "idle"
    /\ nInfoDone[TopicA] = 1
    /\ found_sensors[TopicA].value_type = "TYPE_STRING"
    /\ DataSubscriptionsOf(TopicA) # {}

====
